---- MODULE Spec2Model ----
(***************************************************************************)
(* A model of src/serverlist.rs of steam-vent: the discovery call          *)
(* (ServerList::discover_with), the construction of the rotating server    *)
(* list (impl From<ServerListResponse> for ServerList), the round-robin    *)
(* pick (ServerList::pick_ws) and the per-server failure counter           *)
(* (TrackedServer).                                                        *)
(***************************************************************************)
EXTENDS Integers, Sequences, FiniteSets, Bags, TLC

(***************************************************************************)
(* Bounds of the model.                                                    *)
(***************************************************************************)
\* Longest server list a response carries.
MaxServers == 2
\* Calls of pick_ws and calls (or bursts of calls) of track_connection_failure
\* started in one behaviour.
MaxCalls == 5
\* The threads sharing the ServerList.
Threads == { 1, 2 }

(***************************************************************************)
(* u32 values.  TLC's integers are 32-bit signed, so a u32 is kept as its  *)
(* two 16-bit halves [hi, lo], of value hi * 2^16 + lo.  A count of calls, *)
(* which is a natural number and never wraps, has the same shape with an   *)
(* unbounded hi.                                                           *)
(***************************************************************************)
U16 == 65536

U32Zero == [hi |-> 0, lo |-> 0]
U32One == [hi |-> 0, lo |-> 1]
U32Max == [hi |-> U16 - 1, lo |-> U16 - 1]

\* a + b on natural numbers (no wrap).
NatAdd(a, b) ==
    [hi |-> a.hi + b.hi + ((a.lo + b.lo) \div U16), lo |-> (a.lo + b.lo) % U16]

\* a < b on the values.
NatLess(a, b) == a.hi < b.hi \/ (a.hi = b.hi /\ a.lo < b.lo)

\* u32::wrapping_add, the arithmetic of AtomicU32::fetch_add.
WrappingAdd(a, b) ==
    [hi |-> (a.hi + b.hi + ((a.lo + b.lo) \div U16)) % U16, lo |-> (a.lo + b.lo) % U16]

(***************************************************************************)
(* Server descriptors: the fields of struct Server the code reads or       *)
(* carries (endpoint identifies the server, load is the sort key, wtd_load *)
(* is carried).  The f32 wtd_load is a tag: no code computes with it.      *)
(***************************************************************************)
ServerPool ==
    { [endpoint |-> "A", load |-> 1, wtd_load |-> 10],
      [endpoint |-> "B", load |-> 5, wtd_load |-> 20],
      [endpoint |-> "C", load |-> 2, wtd_load |-> 30],
      [endpoint |-> "D", load |-> 2, wtd_load |-> 10] }

\* The server lists a decoded response may carry.
Responses == UNION { [1..n -> ServerPool] : n \in 0..MaxServers }

\* The cell ids the options may carry: None (<<>>) or Some(c), c a u8.
Cells == { <<>>, <<0>>, <<7>>, <<255>> }

\* The reqwest errors of the exchange.
SendErrors == { "connect", "timeout" }
JsonErrors == { "decode" }

VARIABLES
    cell,        \* options.cell
    dpc,         \* discover_with: "start", "send", "json", "done"
    query,       \* the query map of the request
    nRequests,   \* requests issued
    exchange,    \* how the exchange went ("none", "send_err", "json_err", "ok")
                 \* and the reqwest error it ended with
    emptyChecked,\* line 107 was evaluated
    response,    \* response.response.server_list as decoded
    result,      \* what discover_with returned
    servers,     \* the Vec the Cycle iterates (its orig)
    slist,       \* each thread's ServerList: the Arc<Mutex<Cycle>> it points
                 \* to (0 when the thread has none)
    iter,        \* by Arc: the Cycle's inner iterator, index of its next element
    lock,        \* by Arc: the Mutex, 0 when free, else the thread holding it
    poisoned,    \* by Arc: the Mutex is poisoned
    atomics,     \* the AtomicU32 each Arc points to, by Arc
    pc,          \* each thread's position
    idx,         \* each thread's view of the iterator inside next()
    held,        \* the handle each thread holds (<<>> when none)
    ret,         \* the u32 the thread's last counter operation returned
    picked,      \* history: the handles yielded, in the order of the lock
    calls,       \* history: track_connection_failure calls made, by Arc
    nPicks,      \* pick_ws calls started
    nTracks      \* track actions taken

vars == << cell, dpc, query, nRequests, exchange, emptyChecked, response, result,
           servers, slist, iter, lock, poisoned, atomics, pc, idx, held, ret, picked,
           calls, nPicks, nTracks >>

discoverVars == << cell, dpc, query, nRequests, exchange, emptyChecked, response, result >>
listVars == << servers, slist, iter, lock, poisoned >>
threadVars == << pc, idx, held, ret >>

(***************************************************************************)
(* discover_with: the request.                                             *)
(***************************************************************************)
Digit(d) == << "0", "1", "2", "3", "4", "5", "6", "7", "8", "9" >>[d + 1]

\* u8::to_string: the decimal digits, no sign, no leading zero.
RECURSIVE U8ToString(_)
U8ToString(n) == IF n < 10 THEN Digit(n) ELSE U8ToString(n \div 10) \o Digit(n % 10)

\* HashMap::insert: the key is bound to the value, replacing an earlier one.
Insert(map, k, v) == (k :> v) @@ map

\* The empty HashMap.
EmptyMap == [k \in {} |-> ""]

\* A query that sends cell 0 when no cell is set.
BuildQueryDefaultCell(c) ==
    LET fixed == Insert(Insert(EmptyMap, "cmtype", "websockets"), "realm", "steamglobal")
    IN  Insert(fixed, "cellid", IF c # <<>> THEN U8ToString(c[1]) ELSE "0")

\* Lines 92-98: the two fixed parameters, and cellid when a cell is set.
BuildQuery(c) ==
    LET fixed == Insert(Insert(EmptyMap, "cmtype", "websockets"), "realm", "steamglobal")
    IN  IF c # <<>> THEN Insert(fixed, "cellid", U8ToString(c[1])) ELSE fixed

\* A conversion that drops the error it is given.
FromReqwestErrorLosingCause(e) == [kind |-> "Network", cause |-> "none"]

\* impl From<reqwest::Error> for ServerDiscoveryError, which `?` applies.
FromReqwestError(e) == [kind |-> "Network", cause |-> e]

NoServers == [kind |-> "NoServers", cause |-> "none"]
OkList == [kind |-> "Ok", cause |-> "none"]
Pending == [kind |-> "Pending", cause |-> "none"]

(***************************************************************************)
(* impl From<ServerListResponse> for ServerList: the construction.         *)
(***************************************************************************)
\* The comparator with its operands exchanged: b.load.cmp(&a.load).
CmpLoadReversed(a, b) ==
    IF b.load < a.load THEN "Less" ELSE IF a.load = b.load THEN "Equal" ELSE "Greater"

\* A comparator that breaks ties of load by the weighted load.
CmpLoadThenWeighted(a, b) ==
    IF a.load < b.load THEN "Less"
    ELSE IF a.load > b.load THEN "Greater"
    ELSE IF a.wtd_load < b.wtd_load THEN "Less"
    ELSE IF a.wtd_load = b.wtd_load THEN "Equal" ELSE "Greater"

\* a.load.cmp(&b.load), the comparator of sort_by.
CmpLoad(a, b) ==
    IF a.load < b.load THEN "Less" ELSE IF a.load = b.load THEN "Equal" ELSE "Greater"

\* Vec::sort_by is a stable sort: an element goes after every element that
\* does not compare Greater than it.
RECURSIVE InsertSorted(_, _)
InsertSorted(x, s) ==
    IF s = <<>> THEN << x >>
    ELSE IF CmpLoad(Head(s), x) = "Greater" THEN << x >> \o s
    ELSE << Head(s) >> \o InsertSorted(x, Tail(s))

RECURSIVE SortBy(_)
SortBy(s) ==
    IF s = <<>> THEN <<>>
    ELSE InsertSorted(s[Len(s)], SortBy(SubSeq(s, 1, Len(s) - 1)))

\* A wrapper whose counter is one static shared by every server.
TrackedServerFromShared(server, arc) == [inner |-> server, connection_failures |-> 1]

\* impl From<T> for TrackedServer<T>: the server and a new Arc, named arc.
TrackedServerFrom(server, arc) == [inner |-> server, connection_failures |-> arc]

\* AtomicU32::new(0), the value every new Arc points to.
NewAtomic == U32Zero

\* Lines 134-137: each sorted server is wrapped, in order; the Arcs are
\* allocated in that order and named 1, 2, ...
TrackAll(sorted) == [i \in 1..Len(sorted) |-> TrackedServerFrom(sorted[i], i)]

\* Vec::dedup: of consecutive equal elements only the first is kept.
RECURSIVE Dedup(_)
Dedup(s) ==
    IF Len(s) < 2 THEN s
    ELSE IF s[1] = s[2] THEN Dedup(Tail(s))
    ELSE << s[1] >> \o Dedup(Tail(s))

\* A construction that dedups the sorted list.
FromServerListResponseDedup(list) == TrackAll(Dedup(SortBy(list)))

\* Lines 129-141: the Vec the Cycle is built over.
FromServerListResponse(list) == TrackAll(SortBy(list))

\* The emptiness test left out: no list is rejected.
IsEmptyNever(list) == FALSE

\* Line 107: response.response.server_list.is_empty().
IsEmpty(list) == Len(list) = 0

(***************************************************************************)
(* discover_with: the steps.                                               *)
(***************************************************************************)
\* discover_with returns: its locals (the options it consumed, the query map)
\* are dropped.
DropLocals == cell' = <<>> /\ query' = EmptyMap

\* Lines 90-103: the query is built and the one request is sent.
DiscoverSend ==
    /\ dpc = "start"
    /\ query' = BuildQuery(cell)
    /\ nRequests' = nRequests + 1
    /\ dpc' = "send"
    /\ UNCHANGED << cell, exchange, emptyChecked, response, result >>
    /\ UNCHANGED << listVars, atomics, threadVars, picked, calls, nPicks, nTracks >>

\* A send() failure that is retried: the request is built and sent again.
SendFailsRetry(e) ==
    /\ dpc = "send"
    /\ dpc' = "start"
    /\ UNCHANGED << cell, query, nRequests, exchange, emptyChecked, response, result >>
    /\ UNCHANGED << listVars, atomics, threadVars, picked, calls, nPicks, nTracks >>

\* Line 104: send() fails, and `?` returns the error converted.
SendFails(e) ==
    /\ dpc = "send"
    /\ exchange' = [outcome |-> "send_err", error |-> e]
    /\ result' = FromReqwestError(e)
    /\ dpc' = "done"
    /\ DropLocals
    /\ UNCHANGED << nRequests, emptyChecked, response >>
    /\ UNCHANGED << listVars, atomics, threadVars, picked, calls, nPicks, nTracks >>

\* Line 104: send() succeeds; the body is awaited next.
SendOk ==
    /\ dpc = "send"
    /\ dpc' = "json"
    /\ UNCHANGED << cell, query, nRequests, exchange, emptyChecked, response, result >>
    /\ UNCHANGED << listVars, atomics, threadVars, picked, calls, nPicks, nTracks >>

\* Line 106: json() fails (the body is not of the expected shape).
JsonFails(e) ==
    /\ dpc = "json"
    /\ exchange' = [outcome |-> "json_err", error |-> e]
    /\ result' = FromReqwestError(e)
    /\ dpc' = "done"
    /\ DropLocals
    /\ UNCHANGED << nRequests, emptyChecked, response >>
    /\ UNCHANGED << listVars, atomics, threadVars, picked, calls, nPicks, nTracks >>

\* A clone with a Mutex and a Cycle of its own, at the first server.
CloneServerListDeep(c) == c + 1

\* #[derive(Clone)] of ServerList (line 77): Arc::clone, another pointer to
\* the same Mutex and Cycle.
CloneServerList(c) == c

\* Lines 106-110: json() succeeds with `body`; an empty list is rejected,
\* any other is turned into the ServerList (a new Arc, named 1, with the
\* Cycle at its start and the Mutex free).  The ServerList is returned to
\* thread 1, which gives every other thread a clone of it.
JsonOk(body) ==
    /\ dpc = "json"
    /\ exchange' = [outcome |-> "ok", error |-> "none"]
    /\ response' = body
    /\ emptyChecked' = TRUE
    /\ dpc' = "done"
    /\ IF IsEmpty(body)
       THEN /\ result' = NoServers
            /\ UNCHANGED << servers, slist, iter, lock, poisoned, atomics >>
       ELSE /\ result' = OkList
            /\ servers' = FromServerListResponse(body)
            /\ slist' = [t \in Threads |-> IF t = 1 THEN 1 ELSE CloneServerList(1)]
            /\ iter' = [c \in { slist'[t] : t \in Threads } |-> 1]
            /\ lock' = [c \in DOMAIN iter' |-> 0]
            /\ poisoned' = [c \in DOMAIN iter' |-> FALSE]
            /\ atomics' = [a \in DOMAIN servers' |-> NewAtomic]
    /\ calls' = [a \in DOMAIN atomics' |-> U32Zero]
    /\ DropLocals
    /\ UNCHANGED nRequests
    /\ UNCHANGED << threadVars, picked, nPicks, nTracks >>

(***************************************************************************)
(* pick_ws (lines 117-124).  The statement of line 121 locks the Mutex,    *)
(* calls Cycle::next, unwraps, and drops the guard at its end.             *)
(* Cycle::next takes the inner iterator's next element and, when the inner *)
(* iterator is exhausted, first replaces it by a clone of the original.    *)
(***************************************************************************)
\* A lock that excludes nobody.
MutexIgnored(c) == TRUE

\* Mutex::lock returns only when no thread holds the Mutex.
MutexFree(c) == lock[c] = 0

\* A guard that outlives the call: the Mutex stays with the thread.
GuardLeaked(t) == t

\* The MutexGuard of line 121 is a temporary: it is dropped at the end of the
\* statement, which leaves the Mutex free.
GuardDropped(t) == 0

\* The iterator without cycle(): an exhausted iterator stays exhausted.
CyclePositionNoRestart(it) == it

\* A rotation that passes over the servers with recorded failures: the first
\* position from the iterator's on whose counter is zero, if there is one.
CyclePositionSkippingFailed(it) ==
    LET from == IF it > Len(servers) THEN 1 ELSE it
        clean == { p \in from..Len(servers) :
                      atomics[servers[p].connection_failures] = U32Zero }
    IN  IF clean = {} THEN from ELSE CHOOSE p \in clean : \A q \in clean : p <= q

\* Cycle::next, the position it yields: the inner iterator's, or the first
\* one again when the inner iterator is exhausted.
CyclePosition(it) == IF it > Len(servers) THEN 1 ELSE it

\* #[derive(Clone)] of TrackedServer: the server is cloned and Arc::clone
\* gives another pointer to the same AtomicU32.
CloneTrackedServer(h) ==
    [inner |-> h.inner, connection_failures |-> h.connection_failures]

\* A thread calls pick_ws.
PickCall(t) ==
    /\ slist[t] # 0
    /\ pc[t] = "idle"
    /\ nPicks + nTracks < MaxCalls
    /\ pc' = [pc EXCEPT ![t] = "lock"]
    /\ nPicks' = nPicks + 1
    /\ UNCHANGED << discoverVars, listVars, atomics, idx, held, ret, picked, calls, nTracks >>

\* self.servers.lock().unwrap(): the thread gets the Mutex; unwrap panics
\* when the Mutex is poisoned (the guard inside the error is dropped).
LockAcquire(t) ==
    /\ pc[t] = "lock"
    /\ MutexFree(slist[t])
    /\ IF poisoned[slist[t]]
       THEN /\ pc' = [pc EXCEPT ![t] = "panicked"]
            /\ UNCHANGED lock
       ELSE /\ pc' = [pc EXCEPT ![t] = "next"]
            /\ lock' = [lock EXCEPT ![slist[t]] = t]
    /\ UNCHANGED << discoverVars, servers, slist, iter, poisoned, atomics, idx, held, ret,
                    picked, calls, nPicks, nTracks >>

\* Cycle::next, first half: the position to yield is read from the iterator.
CycleNext(t) ==
    /\ pc[t] = "next"
    /\ idx' = [idx EXCEPT ![t] = CyclePosition(iter[slist[t]])]
    /\ pc' = [pc EXCEPT ![t] = "yield"]
    /\ UNCHANGED << discoverVars, listVars, atomics, held, ret, picked, calls, nPicks, nTracks >>

\* Cycle::next, second half, and the rest of pick_ws: the iterator moves past
\* the position and its element is returned; with no element, next() is None
\* and unwrap panics, which poisons the Mutex as the guard is dropped.
Yield(t) ==
    /\ pc[t] = "yield"
    /\ lock' = [lock EXCEPT ![slist[t]] = GuardDropped(t)]
    /\ idx' = [idx EXCEPT ![t] = 0]
    /\ IF idx[t] \in DOMAIN servers
       THEN LET srv == CloneTrackedServer(servers[idx[t]])
            IN  /\ iter' = [iter EXCEPT ![slist[t]] = idx[t] + 1]
                /\ held' = [held EXCEPT ![t] = << srv >>]
                /\ picked' = Append(picked, srv)
                /\ pc' = [pc EXCEPT ![t] = "idle"]
                /\ UNCHANGED poisoned
       ELSE /\ poisoned' = [poisoned EXCEPT ![slist[t]] = TRUE]
            /\ pc' = [pc EXCEPT ![t] = "panicked"]
            /\ UNCHANGED << iter, held, picked >>
    /\ UNCHANGED << discoverVars, servers, slist, atomics, ret, calls, nPicks, nTracks >>

(***************************************************************************)
(* TrackedServer (lines 48-66).                                            *)
(***************************************************************************)
\* AtomicU32::fetch_add(n): one atomic step that adds n, wrapping around on
\* overflow, and returns the value before.
FetchAdd(old, n) == [prev |-> old, new |-> WrappingAdd(old, n)]

\* The Arc of the handle a thread holds.
ArcOf(t) == held[t][1].connection_failures

\* A track_connection_failure that goes through the Mutex of the list.
TrackConnectionFailureLocked(t) ==
    /\ pc[t] = "idle"
    /\ held[t] # <<>>
    /\ MutexFree(slist[t])
    /\ nPicks + nTracks < MaxCalls
    /\ LET r == FetchAdd(atomics[ArcOf(t)], U32One)
       IN  /\ atomics' = [atomics EXCEPT ![ArcOf(t)] = r.new]
           /\ ret' = [ret EXCEPT ![t] = r.prev]
    /\ calls' = [calls EXCEPT ![ArcOf(t)] = NatAdd(@, U32One)]
    /\ nTracks' = nTracks + 1
    /\ UNCHANGED << discoverVars, listVars, pc, idx, held, picked, nPicks >>

\* track_connection_failure on the handle the thread holds.
TrackConnectionFailure(t) ==
    /\ pc[t] = "idle"
    /\ held[t] # <<>>
    /\ nPicks + nTracks < MaxCalls
    /\ LET r == FetchAdd(atomics[ArcOf(t)], U32One)
       IN  /\ atomics' = [atomics EXCEPT ![ArcOf(t)] = r.new]
           /\ ret' = [ret EXCEPT ![t] = r.prev]
    /\ calls' = [calls EXCEPT ![ArcOf(t)] = NatAdd(@, U32One)]
    /\ nTracks' = nTracks + 1
    /\ UNCHANGED << discoverVars, listVars, pc, idx, held, picked, nPicks >>

\* The calls of one burst: 2^32 - 1.
Burst == U32Max
BurstButOne == [hi |-> U16 - 1, lo |-> U16 - 2]

\* A thread calls track_connection_failure Burst times in a row on the handle
\* it holds: the counter has advanced by Burst and the last call returned
\* the value before its own increment.
TrackConnectionFailureBurst(t) ==
    /\ pc[t] = "idle"
    /\ held[t] # <<>>
    /\ nPicks + nTracks < MaxCalls
    /\ LET before == FetchAdd(atomics[ArcOf(t)], BurstButOne)
           last == FetchAdd(before.new, U32One)
       IN  /\ atomics' = [atomics EXCEPT ![ArcOf(t)] = last.new]
           /\ ret' = [ret EXCEPT ![t] = last.prev]
    /\ calls' = [calls EXCEPT ![ArcOf(t)] = NatAdd(@, Burst)]
    /\ nTracks' = nTracks + 1
    /\ UNCHANGED << discoverVars, listVars, pc, idx, held, picked, nPicks >>

\* connection_failures on the handle the thread holds: an atomic load.
ConnectionFailures(t) ==
    /\ pc[t] = "idle"
    /\ held[t] # <<>>
    /\ ret' = [ret EXCEPT ![t] = atomics[ArcOf(t)]]
    /\ UNCHANGED << discoverVars, listVars, atomics, pc, idx, held, picked, calls,
                    nPicks, nTracks >>

\* A thread clones the handle it holds and gives the clone to another thread.
CloneHandle(t, u) ==
    /\ t # u
    /\ pc[t] = "idle"
    /\ pc[u] = "idle"
    /\ held[t] # <<>>
    /\ held' = [held EXCEPT ![u] = << CloneTrackedServer(held[t][1]) >>]
    /\ UNCHANGED << discoverVars, listVars, atomics, pc, idx, ret, picked, calls,
                    nPicks, nTracks >>

(***************************************************************************)
(* The specification.                                                      *)
(***************************************************************************)
Init ==
    /\ cell \in Cells
    /\ dpc = "start"
    /\ query = EmptyMap
    /\ nRequests = 0
    /\ exchange = [outcome |-> "none", error |-> "none"]
    /\ emptyChecked = FALSE
    /\ response = <<>>
    /\ result = Pending
    /\ servers = <<>>
    /\ slist = [t \in Threads |-> 0]
    /\ iter = <<>>
    /\ lock = <<>>
    /\ poisoned = <<>>
    /\ atomics = <<>>
    /\ pc = [t \in Threads |-> "idle"]
    /\ idx = [t \in Threads |-> 0]
    /\ held = [t \in Threads |-> <<>>]
    /\ ret = [t \in Threads |-> U32Zero]
    /\ picked = <<>>
    /\ calls = <<>>
    /\ nPicks = 0
    /\ nTracks = 0

Next ==
    \/ DiscoverSend
    \/ \E e \in SendErrors : SendFails(e)
    \/ SendOk
    \/ \E e \in JsonErrors : JsonFails(e)
    \/ \E body \in Responses : JsonOk(body)
    \/ \E t \in Threads : PickCall(t)
    \/ \E t \in Threads : LockAcquire(t)
    \/ \E t \in Threads : CycleNext(t)
    \/ \E t \in Threads : Yield(t)
    \/ \E t \in Threads : TrackConnectionFailure(t)
    \/ \E t \in Threads : TrackConnectionFailureBurst(t)
    \/ \E t \in Threads : ConnectionFailures(t)
    \/ \E t, u \in Threads : CloneHandle(t, u)

Spec == Init /\ [][Next]_vars

\* The threads are scheduled fairly: a thread inside pick_ws keeps running,
\* and a thread waiting for the Mutex gets it if it is free again and again.
Fairness ==
    \A t \in Threads :
        /\ SF_vars(LockAcquire(t))
        /\ WF_vars(CycleNext(t))
        /\ WF_vars(Yield(t))

FairSpec == Spec /\ Fairness

(***************************************************************************)
(* The claims.                                                             *)
(***************************************************************************)
\* How often x occurs in the sequence s.
CountIn(s, x) == Cardinality({ i \in DOMAIN s : s[i] = x })

\* The servers of the handles of a sequence.
Inners(s) == [i \in DOMAIN s |-> s[i].inner]

\* Entries of the response with a load below L, and with a load of at most L:
\* in any ascending order by load, a server of load L stands at a position
\* after the first count and up to the second.
LoadsBelow(L) == Cardinality({ k \in DOMAIN response : response[k].load < L })
LoadsUpTo(L) == Cardinality({ k \in DOMAIN response : response[k].load <= L })

\* C1: the i-th call of pick_ws (from 0) returns the server at position
\* i mod N of the response's servers in ascending order of load: each pick is
\* a server of the response whose load has the rank of that position, and a
\* pick repeats the pick N calls before.
C1_PicksFollowLoadOrder ==
    \A i \in DOMAIN picked :
        LET n == Len(response)
            p == ((i - 1) % n) + 1
            s == picked[i].inner
        IN  /\ \E k \in DOMAIN response : response[k] = s
            /\ LoadsBelow(s.load) < p
            /\ p <= LoadsUpTo(s.load)
            /\ i > n => picked[i] = picked[i - n]

\* Five calls on a list of two servers that the response gave in descending
\* order of load.
C1_Witness ==
    /\ Len(picked) = 5
    /\ Len(response) = 2
    /\ response[1].load > response[2].load

\* C2: with the threads calling pick_ws concurrently, the picks in the order
\* of the lock are the positions 0, 1, ..., C-1 (mod N) of the list, each
\* position is picked floor(C/N) or ceil(C/N) times, and no two threads are
\* inside Cycle::next together.
C2_ConcurrentPicksRotate ==
    LET n == Len(servers)
        c == Len(picked)
    IN  /\ \A i \in DOMAIN picked : picked[i] = servers[((i - 1) % n) + 1]
        /\ \A p \in DOMAIN servers :
              CountIn(picked, servers[p]) \in { c \div n, (c + n - 1) \div n }
        /\ \A t, u \in Threads :
              t # u => ~(pc[t] \in {"next", "yield"} /\ pc[u] \in {"next", "yield"})

\* One thread is inside Cycle::next while the other waits for the lock, after
\* a pick count that is no multiple of N.
C2_Witness ==
    /\ Len(servers) = 2
    /\ Len(picked) = 3
    /\ \E t, u \in Threads : pc[t] = "yield" /\ pc[u] = "lock"

\* C3: connection_failures on a handle of a server returns the number of
\* track_connection_failure calls made on handles of that server.
C3_ReadReturnsCallsMade ==
    [][\A t \in Threads : ConnectionFailures(t) => ret'[t] = calls[ArcOf(t)]]_vars

\* C4: no pick_ws call panics: no thread has panicked, the Mutex is never
\* poisoned, and Cycle::next always has an element to yield.
C4_PickNeverPanics ==
    /\ \A t \in Threads : pc[t] # "panicked"
    /\ \A c \in DOMAIN poisoned : ~poisoned[c]
    /\ \A t \in Threads : pc[t] = "yield" => idx[t] \in DOMAIN servers

\* A thread is about to be given the first server again, after failures were
\* recorded.
C4_Witness ==
    /\ \E t \in Threads : pc[t] = "yield" /\ idx[t] = 1 /\ iter[slist[t]] > Len(servers)
    /\ \E a \in DOMAIN atomics : atomics[a] # U32Zero

\* C5: an exchange that succeeds with an empty server list ends in NoServers
\* and no ServerList; a ServerList that exists has at least one entry.
C5_EmptyListIsNoServers ==
    /\ (exchange.outcome = "ok" /\ Len(response) = 0) =>
          (dpc = "done" /\ result = NoServers /\ servers = <<>>)
    /\ result.kind = "Ok" => Len(servers) >= 1

\* The exchange succeeded with an empty list.
C5_Witness == exchange.outcome = "ok" /\ response = <<>> /\ dpc = "done"

\* C6: an exchange that fails in send() or in json() ends in the Network
\* error carrying the reqwest error, with no ServerList and without the
\* empty-list check being reached.
C6_TransportFailureIsNetwork ==
    exchange.outcome \in {"send_err", "json_err"} =>
        /\ dpc = "done"
        /\ result = [kind |-> "Network", cause |-> exchange.error]
        /\ exchange.error \in SendErrors \cup JsonErrors
        /\ servers = <<>>
        /\ ~emptyChecked

\* The body could not be decoded.
C6_Witness == exchange.outcome = "json_err" /\ result.kind = "Network"

\* C7: track_connection_failure returns the count before the call and leaves
\* the count one higher.
C7_TrackReturnsPreviousCount ==
    [][\A t \in Threads :
          TrackConnectionFailure(t) =>
              /\ ret'[t] = atomics[ArcOf(t)]
              /\ atomics'[ArcOf(t)] = NatAdd(atomics[ArcOf(t)], U32One)]_vars

\* C8: every counter is 0 when the ServerList is constructed and no step
\* makes a counter smaller.
C8_CounterNeverDecreases ==
    [][/\ (dpc = "json" /\ dpc' = "done") => \A a \in DOMAIN atomics' : atomics'[a] = U32Zero
       /\ \A a \in DOMAIN atomics : ~NatLess(atomics'[a], atomics[a])]_vars

\* C9: recording failures leaves the list, the iterator and the picks as they
\* are, and a pick_ws call returns the server after the one picked before,
\* whatever the counters hold.
C9_FailuresDoNotChangeRotation ==
    [][/\ (\E t \in Threads : TrackConnectionFailure(t) \/ TrackConnectionFailureBurst(t)) =>
             UNCHANGED << servers, iter, lock, picked >>
       /\ \A t \in Threads :
             (pc[t] = "yield" /\ pc'[t] = "idle") =>
                 /\ held'[t] = << servers[(Len(picked) % Len(servers)) + 1] >>
                 /\ servers' = servers]_vars

\* A thread is about to be given a server whose counter is not zero.
C9_Witness ==
    \E t \in Threads :
        /\ pc[t] = "yield"
        /\ idx[t] \in DOMAIN servers
        /\ atomics[servers[idx[t]].connection_failures] # U32Zero

\* a and b have the same entries, each as often in one as in the other: they
\* are as long, and every entry of a is as often in b as in a.
SameEntries(a, b) ==
    /\ Len(a) = Len(b)
    /\ \A i \in DOMAIN a : CountIn(a, a[i]) = CountIn(b, a[i])

\* C10: the ServerList holds the entries of the response, each as often as
\* the response does, in every state from its construction on; every N
\* consecutive picks are those entries; a failed discovery leaves no list.
C10_ListIsPermutationOfResponse ==
    /\ result.kind = "Ok" =>
          /\ SameEntries(Inners(servers), response)
          /\ \A j \in 1..(Len(picked) - Len(response) + 1) :
                SameEntries(Inners(SubSeq(picked, j, j + Len(response) - 1)), response)
    /\ result.kind # "Ok" => servers = <<>>

\* A response that names one server twice, and picks past one full rotation.
C10_Witness ==
    /\ Len(response) = 2
    /\ response[1] = response[2]
    /\ Len(picked) = 3

\* The decimal text of the cell ids of Cells.
CellText(c) == CASE c = 0 -> "0" [] c = 7 -> "7" [] c = 255 -> "255"

\* C12: while the request is out, its query has cmtype=websockets and
\* realm=steamglobal, has cellid exactly when the options have a cell, with
\* the cell in decimal as its value, and has no other parameter.
C12_QueryParameters ==
    dpc \in {"send", "json"} =>
        /\ {"cmtype", "realm"} \subseteq DOMAIN query
        /\ DOMAIN query \subseteq {"cmtype", "realm", "cellid"}
        /\ query["cmtype"] = "websockets"
        /\ query["realm"] = "steamglobal"
        /\ ("cellid" \in DOMAIN query) <=> (cell # <<>>)
        /\ cell # <<>> => query["cellid"] = CellText(cell[1])

\* A request sent with cell 255.
C12_Witness == dpc = "json" /\ cell = << 255 >> /\ "cellid" \in DOMAIN query

\* C13: discover_with issues one request, none before it starts and never a
\* second one; it has returned exactly when the result is a ServerList, the
\* Network error or the NoServers error, a ServerList exists only with the
\* first; and once it has returned nothing of this changes.
C13_OneExchangeOneOutcome ==
    /\ [](/\ nRequests = (IF dpc = "start" THEN 0 ELSE 1)
          /\ (dpc = "done") <=> (result.kind \in {"Ok", "Network", "NoServers"})
          /\ dpc # "done" => result = Pending
          /\ (result.kind = "Ok") <=> (servers # <<>>))
    /\ [][dpc = "done" => (dpc' = "done" /\ result' = result /\ nRequests' = nRequests)]_vars

\* discover_with has returned the Network error for a send() that failed,
\* after its one request.
C13_Witness ==
    dpc = "done" /\ result.kind = "Network" /\ exchange.outcome = "send_err" /\ nRequests = 1

\* The entries of s whose load is L, in the order of s.
WithLoad(s, L) == LET HasLoad(x) == x.load = L IN SelectSeq(s, HasLoad)

\* s with the weighted load of every entry replaced by w.
WeightedAs(s, w) == [i \in DOMAIN s |-> [s[i] EXCEPT !.wtd_load = w]]

\* C14: the list is in ascending order of load, the entries of each load
\* stand in the order the response has them, and the response with every
\* weighted load replaced by one value is put in the same order.
C14_StableSortOnLoadOnly ==
    result.kind = "Ok" =>
        /\ \A p, q \in DOMAIN servers :
              p < q => servers[p].inner.load <= servers[q].inner.load
        /\ \A k \in DOMAIN response :
              WithLoad(Inners(servers), response[k].load) = WithLoad(response, response[k].load)
        /\ WeightedAs(Inners(servers), 0) = SortBy(WeightedAs(response, 0))

\* Two servers of equal load, the first of the response with the greater
\* weighted load.
C14_Witness ==
    /\ result.kind = "Ok"
    /\ Len(response) = 2
    /\ response[1].load = response[2].load
    /\ response[1].wtd_load > response[2].wtd_load

C15_CounterOpsNeverTakeLock ==
    /\ [](\A t \in Threads :
             (pc[t] = "idle" /\ held[t] # <<>>) =>
                 /\ ENABLED ConnectionFailures(t)
                 /\ nPicks + nTracks < MaxCalls => ENABLED TrackConnectionFailure(t))
    /\ [][\A t \in Threads :
             (TrackConnectionFailure(t) \/ ConnectionFailures(t)) =>
                 UNCHANGED << iter, lock, pc >>]_vars

\* A thread holding a handle with recorded failures is outside pick_ws while
\* the other thread is inside Cycle::next with the Mutex.
C15_Witness ==
    \E t, u \in Threads :
        /\ pc[u] = "yield"
        /\ lock[slist[u]] = u
        /\ pc[t] = "idle"
        /\ held[t] # <<>>
        /\ atomics[ArcOf(t)] # U32Zero
        /\ nPicks + nTracks < MaxCalls

\* C16: every thread's ServerList points to the one Mutex and Cycle, the
\* picks made through all of them together are the positions 0, 1, ... (mod
\* N) of the list, and whenever the Mutex is free the one iterator stands
\* after the position of the last pick.
C16_ClonesShareOneCursor ==
    result.kind = "Ok" =>
        /\ \A t, u \in Threads : slist[t] # 0 /\ slist[t] = slist[u]
        /\ Cardinality(DOMAIN iter) = 1
        /\ \A i \in DOMAIN picked :
              picked[i].connection_failures = ((i - 1) % Len(servers)) + 1
        /\ \A c \in DOMAIN iter :
              lock[c] = 0 =>
                  iter[c] = (IF picked = <<>> THEN 1
                             ELSE ((Len(picked) - 1) % Len(servers)) + 2)

\* Both threads are inside pick_ws, each on its own ServerList, after picks
\* that gave them different servers.
C16_Witness ==
    /\ pc[1] = "lock"
    /\ pc[2] = "next"
    /\ Len(servers) = 2
    /\ Len(picked) = 3
    /\ held[1] # <<>>
    /\ held[2] # <<>>
    /\ held[1] # held[2]

\* C17: the entries of the list have counters of their own, and a
\* track_connection_failure on a handle changes the counter of the entry the
\* handle is of and of no other entry.
C17_OneCounterPerEntry ==
    /\ [](\A p, q \in DOMAIN servers :
             /\ servers[p].connection_failures \in DOMAIN atomics
             /\ p # q => servers[p].connection_failures # servers[q].connection_failures)
    /\ [][\A t \in Threads :
             (TrackConnectionFailure(t) \/ TrackConnectionFailureBurst(t)) =>
                 \A p \in DOMAIN servers :
                     LET a == servers[p].connection_failures
                     IN  (atomics'[a] # atomics[a]) <=> (servers[p] = held[t][1])]_vars

\* The response names one server twice; the first entry has recorded
\* failures and the second has none.
C17_Witness ==
    /\ Len(response) = 2
    /\ response[1] = response[2]
    /\ atomics[1] # U32Zero
    /\ atomics[2] = U32Zero

====
